---- MODULE Spec2Model ----
(***************************************************************************)
(* A state-machine model of MegatronTokenLevelEncoderDecoderModule         *)
(* (nemo/collections/nlp/modules/common/megatron/                           *)
(* token_level_encoder_decoder.py): construction, the pipeline hand-off    *)
(* set_input_tensor, forward, and the state-dict save / load pair.         *)
(*                                                                         *)
(* Tensors are abstract: a tensor is a record of its kind, the axis order  *)
(* of its dimensions and its sequence length.  Python's None is the record *)
(* None below (for tensors) or the number 0 (for opaque handed-off tensors *)
(* and object references).  A call is one step idle -> returned; the call's*)
(* outcome (return value or raised exception, the collaborators invoked,   *)
(* the arguments handed to the coordinator and to the cross-entropy) is    *)
(* kept until the caller resumes.                                          *)
(***************************************************************************)
EXTENDS Integers, Sequences, FiniteSets, TLC

\* ------------------------------------------------------------------ bounds
\* The sequence length of the encoder token ids a caller passes to forward, and that
\* of the decoder token ids and labels (forward never branches on a length; the two
\* differ so that a [dec_len x enc_len] grid is told from a square one).
EncLen == 2
DecLen == 3
\* Embedding weights are abstracted to one number in 0..MaxW (0: all zero).
MaxW == 1
\* Opaque tensors handed over by the pipeline runtime are numbered 1..NumTensors.
NumTensors == 2
\* Longest list handed to set_input_tensor.
MaxList == 3

VARIABLES
    phase,                \* "unbuilt" | "ready" | "failed" (the constructor raised)
    self,                 \* the flags __init__ stores on the instance
    heap,                 \* Embedding objects: heap[id] is the weight of object id
    encoder_embedding,    \* reference into heap, 0 when the attribute is absent
    decoder_embedding,    \* reference into heap, 0 when the attribute is absent
    rpe,                  \* which relative-position-bias generators exist
    enc_dec_model,        \* the coordinator: encoder, decoder, received inputs
    tokens_head,          \* the output head: its kind ("absent", "tied", "linear"), its weights
    pc,                   \* "idle" | "returned"
    op,                   \* the call that returned last
    args,                 \* its arguments
    ret,                  \* its outcome
    calls,                \* collaborators it invoked, in order
    coord,                \* the arguments it handed to the coordinator's forward
    ce,                   \* the arguments it handed to the cross-entropy
    handed_off            \* history: the encoder output of the last successful hand-off
                          \* to a decoder-only stage

config == <<phase, self>>
components == <<heap, encoder_embedding, decoder_embedding, rpe, enc_dec_model, tokens_head>>
outcome == <<pc, op, args, ret, calls, coord, ce>>
vars == <<phase, self, heap, encoder_embedding, decoder_embedding, rpe, enc_dec_model,
          tokens_head, pc, op, args, ret, calls, coord, ce, handed_off>>

\* ------------------------------------------------------------------ values
PositionEmbeddingTypes == {"learned_absolute", "relative", "absolute_sinusoid"}
HiddenSizes == {512, 56}
HeadCounts == {7, 8}
\* -1 stands for kv_channels=None
NoneInt == -1
KvChannelsArgs == {NoneInt, 32}

Returned(kind) == [kind |-> kind]
Raised(exc) == [kind |-> "raised", exc |-> exc]

NoCoord == [called |-> FALSE]
NoCe == [called |-> FALSE]

NoSelf ==
    [pre_process |-> FALSE, post_process |-> FALSE, fp16_cross_entropy |-> FALSE,
     add_encoder |-> FALSE, add_decoder |-> FALSE, position_embedding_type |-> "unset",
     share_token_embeddings |-> FALSE, share_decoder_tokens_head_embeddings |-> FALSE,
     relative_position_bias_self_attention_only |-> FALSE,
     word_embeddings_initialized |-> FALSE]

NoRpe == [encoder |-> FALSE, decoder |-> FALSE, decoder_cross |-> FALSE]

NoModel ==
    [exists |-> FALSE, encoder |-> FALSE, decoder |-> FALSE,
     encoder_input_tensor |-> 0, decoder_input_tensor |-> 0, encoder_hidden_state |-> 0,
     weights |-> 0]

NoHead == [kind |-> "absent", weights |-> 0]

NoHandoff == [done |-> FALSE, enc_output |-> 0]

Init ==
    /\ phase = "unbuilt"
    /\ self = NoSelf
    /\ heap = << >>
    /\ encoder_embedding = 0
    /\ decoder_embedding = 0
    /\ rpe = NoRpe
    /\ enc_dec_model = NoModel
    /\ tokens_head = NoHead
    /\ pc = "idle"
    /\ op = "none"
    /\ args = [none |-> TRUE]
    /\ ret = Returned("none")
    /\ calls = << >>
    /\ coord = NoCoord
    /\ ce = NoCe
    /\ handed_off = NoHandoff

\* ------------------------------------------------------------- construction
ConstructorArgs ==
    [add_encoder : BOOLEAN, add_decoder : BOOLEAN,
     pre_process : BOOLEAN, post_process : BOOLEAN,
     share_token_embeddings : BOOLEAN, share_decoder_tokens_head_embeddings : BOOLEAN,
     position_embedding_type : PositionEmbeddingTypes,
     relative_position_bias_self_attention_only : BOOLEAN,
     fp16_cross_entropy : BOOLEAN,
     hidden_size : HiddenSizes, num_attention_heads : HeadCounts,
     kv_channels : KvChannelsArgs]

\* Lines 147-152: the position-embedding kind is validated first.
PositionEmbeddingTypeOk(a) ==
    a.position_embedding_type \in {"learned_absolute", "relative"}

\* The derivation with its assert left out.
KvChannelsUnchecked(kv_channels, hidden_size, num_attention_heads) == TRUE

\* Lines 155-159: the assert of the derivation.
KvChannelsAssertOk(kv_channels, hidden_size, num_attention_heads) ==
    kv_channels = NoneInt => hidden_size % num_attention_heads = 0

\* Lines 155-159: the value of the local kv_channels after the derivation.
KvChannels(kv_channels, hidden_size, num_attention_heads) ==
    IF kv_channels = NoneInt THEN hidden_size \div num_attention_heads ELSE kv_channels

\* Lines 162-164: the encoder embedding table exists iff add_encoder and pre_process.
HasEncoderEmbedding(a) == a.add_encoder /\ a.pre_process

\* Lines 223-225: the decoder owns an embedding iff add_decoder and pre_process.
HasDecoderEmbedding(a) == a.add_decoder /\ a.pre_process

\* The reuse decided on the encoder table alone, share_token_embeddings ignored.
ReuseWheneverEncoderEmbedding(a) == a.add_encoder /\ a.pre_process

\* Line 227: reuse the encoder's table for the decoder.
ReuseEncoderEmbedding(a) == HasEncoderEmbedding(a) /\ a.share_token_embeddings

\* Lines 243-244: zero_parameters() on a newly built decoder table.
ZeroNewDecoderEmbedding(a) == a.share_token_embeddings

\* The output head built on every post-process stage, add_decoder ignored.
TokensHeadOnPostProcess(a, wh) ==
    IF a.post_process
    THEN IF a.share_decoder_tokens_head_embeddings
         THEN [kind |-> "tied", weights |-> 0]
         ELSE [kind |-> "linear", weights |-> wh]
    ELSE NoHead

\* Lines 317-330: the output head.  The tied head owns a bias of zeros (line 58), the
\* independent projection a randomly initialised matrix.
TokensHead(a, wh) ==
    IF a.add_decoder /\ a.post_process
    THEN IF a.share_decoder_tokens_head_embeddings
         THEN [kind |-> "tied", weights |-> 0]
         ELSE [kind |-> "linear", weights |-> wh]
    ELSE NoHead

\* Lines 175-183, 248-267: the relative-position-bias generators.
RelativePositionEmbeddings(a) ==
    LET rel == a.position_embedding_type = "relative" IN
    [encoder |-> HasEncoderEmbedding(a) /\ rel,
     decoder |-> HasDecoderEmbedding(a) /\ rel,
     decoder_cross |-> HasDecoderEmbedding(a) /\ rel
                       /\ ~a.relative_position_bias_self_attention_only]

\* Lines 133-153: the flags kept on the instance; line 312: initialize_word_embeddings.
SelfOf(a) ==
    [pre_process |-> a.pre_process, post_process |-> a.post_process,
     fp16_cross_entropy |-> a.fp16_cross_entropy,
     add_encoder |-> a.add_encoder, add_decoder |-> a.add_decoder,
     position_embedding_type |-> a.position_embedding_type,
     share_token_embeddings |-> a.share_token_embeddings,
     share_decoder_tokens_head_embeddings |-> a.share_decoder_tokens_head_embeddings,
     relative_position_bias_self_attention_only |->
         a.relative_position_bias_self_attention_only,
     word_embeddings_initialized |-> a.share_token_embeddings]

\* Embedding.__init__ with init_method_normal: a random, non-zero table.
InitialWeights == 1..MaxW

\* The collaborators __init__ invokes, in order.
ConstructorCalls(a) ==
    (IF HasEncoderEmbedding(a) THEN <<"Embedding">> ELSE << >>)
    \o (IF a.add_encoder THEN <<"get_encoder_model">> ELSE << >>)
    \o (IF HasDecoderEmbedding(a) /\ ~ReuseEncoderEmbedding(a)
        THEN <<"Embedding">> ELSE << >>)
    \o (IF HasDecoderEmbedding(a) /\ ~ReuseEncoderEmbedding(a) /\ ZeroNewDecoderEmbedding(a)
        THEN <<"zero_parameters">> ELSE << >>)
    \o (IF a.add_decoder THEN <<"get_decoder_model">> ELSE << >>)
    \o <<"MegatronTransformerEncoderDecoderModule">>
    \o (IF a.share_token_embeddings THEN <<"initialize_word_embeddings">> ELSE << >>)
    \o (IF a.add_decoder /\ a.post_process
        THEN IF a.share_decoder_tokens_head_embeddings
             THEN <<"MegatronTokenLevelHead">> ELSE <<"ColumnParallelLinear">>
        ELSE << >>)

ConstructFails(a, exc) ==
    /\ phase' = "failed"
    /\ ret' = Raised(exc)
    /\ calls' = << >>
    /\ UNCHANGED <<self, components>>

ConstructSucceeds(a, we, wd, wh) ==
    LET heap1 == IF HasEncoderEmbedding(a) THEN <<we>> ELSE << >>
        enc_ref == IF HasEncoderEmbedding(a) THEN 1 ELSE 0
        new_dec == HasDecoderEmbedding(a) /\ ~ReuseEncoderEmbedding(a)
        heap2 == IF new_dec
                 THEN Append(heap1, IF ZeroNewDecoderEmbedding(a) THEN 0 ELSE wd)
                 ELSE heap1
        dec_ref == IF ~HasDecoderEmbedding(a) THEN 0
                   ELSE IF ReuseEncoderEmbedding(a) THEN enc_ref ELSE Len(heap2)
    IN  /\ phase' = "ready"
        /\ self' = SelfOf(a)
        /\ heap' = heap2
        /\ encoder_embedding' = enc_ref
        /\ decoder_embedding' = dec_ref
        /\ rpe' = RelativePositionEmbeddings(a)
        /\ enc_dec_model' = [NoModel EXCEPT !.exists = TRUE,
                                            !.encoder = a.add_encoder,
                                            !.decoder = a.add_decoder,
                                            !.weights = 1]
        /\ tokens_head' = TokensHead(a, wh)
        /\ ret' = [kind |-> "object",
                   kv_channels |-> KvChannels(a.kv_channels, a.hidden_size,
                                              a.num_attention_heads)]
        /\ calls' = ConstructorCalls(a)

\* __init__, lines 83-330.
Construct ==
    /\ phase = "unbuilt"
    /\ pc = "idle"
    /\ \E a \in ConstructorArgs, we \in InitialWeights, wd \in InitialWeights,
          wh \in InitialWeights :
        /\ pc' = "returned"
        /\ op' = "__init__"
        /\ args' = a
        /\ handed_off' = handed_off
        /\ coord' = NoCoord
        /\ ce' = NoCe
        /\ IF ~PositionEmbeddingTypeOk(a)
           THEN ConstructFails(a, "ValueError")
           ELSE IF ~KvChannelsAssertOk(a.kv_channels, a.hidden_size, a.num_attention_heads)
           THEN ConstructFails(a, "AssertionError")
           ELSE ConstructSucceeds(a, we, wd, wh)

\* The caller takes the outcome of the call that returned.
Resume ==
    /\ pc = "returned"
    /\ pc' = "idle"
    /\ op' = "none"
    /\ args' = [none |-> TRUE]
    /\ ret' = Returned("none")
    /\ calls' = << >>
    /\ coord' = NoCoord
    /\ ce' = NoCe
    /\ UNCHANGED <<config, components, handed_off>>

\* ------------------------------------------------------------------ hand-off
\* What the pipeline runtime hands over: a list of opaque tensors (0 is None), or a
\* bare value that is not a list.
HandedTensors == 0..NumTensors

RECURSIVE ListsUpTo(_)
ListsUpTo(n) ==
    IF n = 0 THEN {<< >>}
    ELSE LET shorter == ListsUpTo(n - 1) IN
         shorter \cup {Append(l, t) : l \in {x \in shorter : Len(x) = n - 1},
                                      t \in HandedTensors}

InputTensors ==
    {[is_list |-> TRUE, items |-> l] : l \in ListsUpTo(MaxList)}
    \cup {[is_list |-> FALSE, value |-> t] : t \in HandedTensors}

\* Lines 337-338: a value that is not a list is wrapped into a one-element list.
AsList(input_tensor) ==
    IF input_tensor.is_list THEN input_tensor.items ELSE <<input_tensor.value>>

\* The encoder stage taking the first tensor of any non-empty list.
EncoderStageHandoffAnyLength(m, lst) ==
    IF Len(lst) >= 1
    THEN [raised |-> FALSE, exc |-> "", model |-> [m EXCEPT !.encoder_input_tensor = lst[1]]]
    ELSE [raised |-> TRUE, exc |-> "AssertionError", model |-> m]

\* Lines 340-347: a stage that owns an encoder takes exactly one tensor, for the encoder.
EncoderStageHandoff(m, lst) ==
    IF Len(lst) = 1
    THEN [raised |-> FALSE, exc |-> "", model |-> [m EXCEPT !.encoder_input_tensor = lst[1]]]
    ELSE [raised |-> TRUE, exc |-> "AssertionError", model |-> m]

\* The decoder stage reading the two-element list in the other order.
DecoderStageHandoffSwapped(m, lst) ==
    IF Len(lst) = 2
    THEN [raised |-> FALSE, exc |-> "",
          model |-> [m EXCEPT !.decoder_input_tensor = lst[2],
                              !.encoder_hidden_state = lst[1]]]
    ELSE IF Len(lst) = 1
    THEN [raised |-> FALSE, exc |-> "",
          model |-> [m EXCEPT !.decoder_input_tensor = 0,
                              !.encoder_hidden_state = lst[1]]]
    ELSE [raised |-> TRUE, exc |-> "Exception", model |-> m]

\* The decoder stage checking the length only after it has assigned.
DecoderStageHandoffAssignFirst(m, lst) ==
    IF Len(lst) = 2
    THEN [raised |-> FALSE, exc |-> "",
          model |-> [m EXCEPT !.decoder_input_tensor = lst[1],
                              !.encoder_hidden_state = lst[2]]]
    ELSE IF Len(lst) = 1
    THEN [raised |-> FALSE, exc |-> "",
          model |-> [m EXCEPT !.decoder_input_tensor = 0,
                              !.encoder_hidden_state = lst[1]]]
    ELSE [raised |-> TRUE, exc |-> "Exception",
          model |-> IF Len(lst) = 0 THEN m
                    ELSE [m EXCEPT !.decoder_input_tensor = lst[1],
                                   !.encoder_hidden_state = lst[Len(lst)]]]

\* Lines 348-356: a decoder-only stage takes [decoder_input, encoder_output] or
\* [encoder_output].
DecoderStageHandoff(m, lst) ==
    IF Len(lst) = 2
    THEN [raised |-> FALSE, exc |-> "",
          model |-> [m EXCEPT !.decoder_input_tensor = lst[1],
                              !.encoder_hidden_state = lst[2]]]
    ELSE IF Len(lst) = 1
    THEN [raised |-> FALSE, exc |-> "",
          model |-> [m EXCEPT !.decoder_input_tensor = 0,
                              !.encoder_hidden_state = lst[1]]]
    ELSE [raised |-> TRUE, exc |-> "Exception", model |-> m]

\* Lines 340-358: the dispatch on the stage role.
SetInputTensorOutcome(m, lst) ==
    IF self.add_encoder THEN EncoderStageHandoff(m, lst)
    ELSE IF self.add_decoder THEN DecoderStageHandoff(m, lst)
    ELSE [raised |-> TRUE, exc |-> "Exception", model |-> m]

\* set_input_tensor, lines 332-358.
SetInputTensor ==
    /\ phase = "ready"
    /\ pc = "idle"
    /\ \E input_tensor \in InputTensors :
        LET o == SetInputTensorOutcome(enc_dec_model, AsList(input_tensor)) IN
        /\ pc' = "returned"
        /\ op' = "set_input_tensor"
        /\ args' = input_tensor
        /\ enc_dec_model' = o.model
        /\ ret' = IF o.raised THEN Raised(o.exc) ELSE Returned("None")
        /\ calls' = << >>
        /\ coord' = NoCoord
        /\ ce' = NoCe
        /\ handed_off' = IF ~o.raised /\ ~self.add_encoder /\ self.add_decoder
                         THEN [done |-> TRUE,
                               enc_output |-> AsList(input_tensor)[Len(AsList(input_tensor))]]
                         ELSE handed_off
        /\ UNCHANGED <<config, heap, encoder_embedding, decoder_embedding, rpe, tokens_head>>

\* ------------------------------------------------------------------- tensors
\* A tensor: what it is, who produced it, the order of its axes ("b" batch, "s"
\* sequence, "h" hidden, "v" vocabulary), its sequence length (0: not known here) and,
\* for a tensor the pipeline runtime handed over, its number.
Tensor(kind, src, dims, len, id) ==
    [kind |-> kind, src |-> src, dims |-> dims, len |-> len, id |-> id]

None == Tensor("None", "", << >>, 0, 0)

NoBias == [gen |-> "None", q |-> 0, k |-> 0]
Bias(gen, q, k) == [gen |-> gen, q |-> q, k |-> k]

\* torch.Tensor.transpose(0, 1)
Transpose01(t) == [t EXCEPT !.dims = <<@[2], @[1]>> \o SubSeq(@, 3, Len(@))]

\* self.enc_dec_model.encoder_hidden_state as a value
StoredEncoderHiddenState ==
    IF enc_dec_model.encoder_hidden_state = 0 THEN None
    ELSE Tensor("enc_output", "encoder_hidden_state", <<"s", "b", "h">>, 0,
                enc_dec_model.encoder_hidden_state)

\* Embedding.forward: token ids [b, s] to embeddings [s, b, h].
Embed(src, n) == Tensor("embedding", src, <<"s", "b", "h">>, n, 0)

\* MegatronTransformerEncoderDecoderModule.encode: the encoder run on enc_input (or,
\* with enc_input None, on the tensor the encoder received by set_input_tensor).
Encode(enc_input) == Tensor("enc_output", "encode", <<"s", "b", "h">>, enc_input.len, 0)

\* MegatronTransformerEncoderDecoderModule.forward: the encoder output is the one
\* given, else the encoder's, else the stored hidden state (which must be there); the
\* result is (decoder_output, encoder_output) when there is a decoder and the encoder
\* output alone when there is none.
CoordinatorForward(enc_input, enc_output, dec_input) ==
    LET eo == IF enc_output.kind # "None" THEN enc_output
              ELSE IF enc_dec_model.encoder THEN Encode(enc_input)
              ELSE StoredEncoderHiddenState
        dec == Tensor("dec_output", "decode", <<"s", "b", "h">>, dec_input.len, 0)
    IN  IF eo.kind = "None" THEN [raised |-> TRUE, exc |-> "AssertionError", out |-> None]
        ELSE IF enc_dec_model.decoder
        THEN [raised |-> FALSE, exc |-> "",
              out |-> [kind |-> "pair", first |-> dec, second |-> eo]]
        ELSE [raised |-> FALSE, exc |-> "", out |-> eo]

\* tokens_head(dec_output, ...): decoder output [s, b, h] to logits [s, b, v].
TokensHeadForward(dec_output) ==
    Tensor("logits", "tokens_head", <<"s", "b", "v">>, dec_output.len, 0)

\* tensor_parallel.vocab_parallel_cross_entropy(logits, labels): one loss per label.
VocabParallelCrossEntropy(logits, labels) ==
    Tensor("loss", "vocab_parallel_cross_entropy", labels.dims, labels.len, 0)

\* -------------------------------------------------------------------- forward
\* The arguments of forward.  Token ids and labels are given by their sequence
\* length (0: None), batch-major; enc_input and enc_output are given or None.  The
\* attention masks are handed to the coordinator as they come and decide nothing
\* here.
ForwardArgs ==
    [enc_input_ids : {0, EncLen}, dec_input_ids : {0, DecLen}, labels : {0, DecLen},
     enc_input : BOOLEAN, enc_output : BOOLEAN, output_enc_hidden_only : BOOLEAN]

Relative == self.position_embedding_type = "relative"

\* Lines 384-398: the encoder input embedding and the encoder self-attention bias.
EncoderInputResolution(a) ==
    LET given == IF a.enc_input THEN Tensor("embedding", "caller", <<"s", "b", "h">>, 0, 0)
                 ELSE None
    IN  IF ~a.enc_input /\ a.enc_input_ids # 0
        THEN IF self.pre_process /\ self.add_encoder
             THEN [enc_input |-> Embed("encoder_embedding", a.enc_input_ids),
                   enc_bias |-> IF Relative
                                THEN Bias("encoder_relative_position_embedding",
                                          a.enc_input_ids, a.enc_input_ids)
                                ELSE NoBias,
                   calls |-> (IF Relative THEN << >> ELSE <<"build_position_ids">>)
                             \o <<"encoder_embedding">>
                             \o (IF Relative
                                 THEN <<"encoder_relative_position_embedding">>
                                 ELSE << >>)]
             ELSE [enc_input |-> None, enc_bias |-> NoBias, calls |-> << >>]
        ELSE [enc_input |-> given, enc_bias |-> NoBias, calls |-> << >>]

\* The encode-only short circuit handing back an encoder output the caller gave.
EncodeOnlyReturnsGiven(a, e) ==
    IF a.enc_output
    THEN [ret |-> Tensor("enc_output", "caller", <<"b", "s", "h">>, 0, 0),
          calls |-> e.calls, coord |-> NoCoord, ce |-> NoCe]
    ELSE IF enc_dec_model.encoder
    THEN [ret |-> Encode(e.enc_input),
          calls |-> e.calls \o <<"enc_dec_model.encode">>,
          coord |-> NoCoord, ce |-> NoCe]
    ELSE [ret |-> StoredEncoderHiddenState, calls |-> e.calls,
          coord |-> NoCoord, ce |-> NoCe]

\* Lines 400-408: the encode-only short circuit.
EncodeOnly(a, e) ==
    IF ~a.enc_output /\ enc_dec_model.encoder
    THEN [ret |-> Encode(e.enc_input),
          calls |-> e.calls \o <<"enc_dec_model.encode">>,
          coord |-> NoCoord, ce |-> NoCe]
    ELSE [ret |-> StoredEncoderHiddenState, calls |-> e.calls,
          coord |-> NoCoord, ce |-> NoCe]

\* Lines 413-429: the decoder input embedding and the decoder biases.
DecoderInputResolution(a) ==
    IF self.pre_process /\ self.add_decoder
    THEN IF a.dec_input_ids = 0
         THEN [raised |-> TRUE, exc |-> "AttributeError", dec_input |-> None,
               dec_bias |-> NoBias, cross_bias |-> NoBias, calls |-> <<"build_position_ids">>]
         ELSE IF ~Relative
         THEN [raised |-> FALSE, exc |-> "",
               dec_input |-> Embed("decoder_embedding", a.dec_input_ids),
               dec_bias |-> NoBias, cross_bias |-> NoBias,
               calls |-> <<"build_position_ids", "decoder_embedding">>]
         ELSE IF self.relative_position_bias_self_attention_only
         THEN [raised |-> FALSE, exc |-> "",
               dec_input |-> Embed("decoder_embedding", a.dec_input_ids),
               dec_bias |-> Bias("decoder_relative_position_embedding",
                                 a.dec_input_ids, a.dec_input_ids),
               cross_bias |-> NoBias,
               calls |-> <<"build_position_ids", "decoder_embedding",
                           "decoder_relative_position_embedding">>]
         ELSE IF a.enc_input_ids = 0
         THEN [raised |-> TRUE, exc |-> "AttributeError", dec_input |-> None,
               dec_bias |-> NoBias, cross_bias |-> NoBias,
               calls |-> <<"build_position_ids", "decoder_embedding",
                           "decoder_relative_position_embedding">>]
         ELSE [raised |-> FALSE, exc |-> "",
               dec_input |-> Embed("decoder_embedding", a.dec_input_ids),
               dec_bias |-> Bias("decoder_relative_position_embedding",
                                 a.dec_input_ids, a.dec_input_ids),
               cross_bias |-> Bias("decoder_cross_attention_relative_position_embedding",
                                   a.dec_input_ids, a.enc_input_ids),
               calls |-> <<"build_position_ids", "decoder_embedding",
                           "decoder_relative_position_embedding",
                           "decoder_cross_attention_relative_position_embedding">>]
    ELSE [raised |-> FALSE, exc |-> "", dec_input |-> None,
          dec_bias |-> NoBias, cross_bias |-> NoBias, calls |-> << >>]

\* Lines 431-433: an encoder output the caller gave is [b, s, h] and is transposed.
GivenEncoderOutput(a) ==
    IF a.enc_output
    THEN Transpose01(Tensor("enc_output", "caller", <<"b", "s", "h">>, 0, 0))
    ELSE None

\* The loss path with the loss left sequence-major.
LossPathNotTransposedBack(a, token_logits, logits_half) ==
    LET labels == Transpose01(Tensor("labels", "caller", <<"b", "s">>, a.labels, 0))
        tokens_loss == VocabParallelCrossEntropy(token_logits, labels)
    IN  IF self.fp16_cross_entropy /\ ~logits_half
        THEN [raised |-> TRUE, exc |-> "AssertionError", ret |-> None,
              calls |-> <<"labels.transpose">>,
              ce |-> [called |-> FALSE, token_logits_half |-> logits_half]]
        ELSE [raised |-> FALSE, exc |-> "", ret |-> tokens_loss,
              calls |-> <<"labels.transpose", "vocab_parallel_cross_entropy">>,
              ce |-> [called |-> TRUE, token_logits_half |-> logits_half,
                      logits_half |-> self.fp16_cross_entropy /\ logits_half,
                      labels |-> labels]]

\* The loss path with the assert on the precision of the logits left out.
LossPathNoPrecisionAssert(a, token_logits, logits_half) ==
    LET labels == Transpose01(Tensor("labels", "caller", <<"b", "s">>, a.labels, 0))
        tokens_loss == VocabParallelCrossEntropy(token_logits, labels)
    IN  [raised |-> FALSE, exc |-> "", ret |-> Transpose01(tokens_loss),
         calls |-> <<"labels.transpose", "vocab_parallel_cross_entropy",
                     "tokens_loss.transpose">>,
         ce |-> [called |-> TRUE, token_logits_half |-> logits_half,
                 logits_half |-> self.fp16_cross_entropy /\ logits_half,
                 labels |-> labels]]

\* Lines 459-473: labels given: the per-token loss.  The cross-entropy gets
\* token_logits as they are when fp16_cross_entropy is set (they must then be half)
\* and token_logits.float() when it is not.
LossPath(a, token_logits, logits_half) ==
    LET labels == Transpose01(Tensor("labels", "caller", <<"b", "s">>, a.labels, 0))
        tokens_loss == VocabParallelCrossEntropy(token_logits, labels)
    IN  IF self.fp16_cross_entropy /\ ~logits_half
        THEN [raised |-> TRUE, exc |-> "AssertionError", ret |-> None,
              calls |-> <<"labels.transpose">>,
              ce |-> [called |-> FALSE, token_logits_half |-> logits_half]]
        ELSE [raised |-> FALSE, exc |-> "", ret |-> Transpose01(tokens_loss),
              calls |-> <<"labels.transpose", "vocab_parallel_cross_entropy",
                          "tokens_loss.transpose">>,
              ce |-> [called |-> TRUE, token_logits_half |-> logits_half,
                      logits_half |-> self.fp16_cross_entropy /\ logits_half,
                      labels |-> labels]]

\* Lines 474-477: no labels: the logits, batch-major.
LogitsPath(token_logits) ==
    [raised |-> FALSE, exc |-> "", ret |-> Transpose01(token_logits),
     calls |-> <<"token_logits.transpose">>, ce |-> NoCe]

\* Lines 451-477: the output head and what follows it.
OutputProjection(a, output, logits_half) ==
    LET token_logits == TokensHeadForward(output.first)
        head_calls == IF self.share_decoder_tokens_head_embeddings
                      THEN <<"word_embeddings_weight", "tokens_head">>
                      ELSE <<"tokens_head">>
        r == IF a.labels # 0 THEN LossPath(a, token_logits, logits_half)
             ELSE LogitsPath(token_logits)
    IN  [r EXCEPT !.calls = head_calls \o @]

\* Lines 451-484: which value forward returns, given the coordinator's output.
SelectOutput(a, output, logits_half) ==
    IF self.post_process /\ self.add_decoder
    THEN OutputProjection(a, output, logits_half)
    ELSE IF self.add_decoder /\ ~self.add_encoder
    THEN [raised |-> FALSE, exc |-> "", ret |-> output.first, calls |-> << >>, ce |-> NoCe]
    ELSE [raised |-> FALSE, exc |-> "", ret |-> output, calls |-> << >>, ce |-> NoCe]

\* Lines 409-484: the full path (output_enc_hidden_only false).
FullForward(a, e, logits_half) ==
    LET d == DecoderInputResolution(a)
        enc_output == GivenEncoderOutput(a)
        pre_calls == e.calls \o d.calls
                     \o (IF a.enc_output THEN <<"enc_output.transpose">> ELSE << >>)
        c == CoordinatorForward(e.enc_input, enc_output, d.dec_input)
        passed == [called |-> TRUE, enc_input |-> e.enc_input, dec_input |-> d.dec_input,
                   enc_output |-> enc_output,
                   enc_self_attention_relative_position_bias |-> e.enc_bias,
                   dec_self_attention_relative_position_bias |-> d.dec_bias,
                   dec_cross_attention_relative_position_bias |-> d.cross_bias]
    IN  IF d.raised
        THEN [ret |-> Raised(d.exc), calls |-> e.calls \o d.calls,
              coord |-> NoCoord, ce |-> NoCe]
        ELSE IF c.raised
        THEN [ret |-> Raised(c.exc), calls |-> pre_calls \o <<"enc_dec_model">>,
              coord |-> passed, ce |-> NoCe]
        ELSE LET s == SelectOutput(a, c.out, logits_half) IN
             [ret |-> IF s.raised THEN Raised(s.exc) ELSE s.ret,
              calls |-> pre_calls \o <<"enc_dec_model">> \o s.calls,
              coord |-> passed, ce |-> s.ce]

\* forward with the encode-only test placed after the decoder input resolution.
ForwardOutcomeLateShortCircuit(a, logits_half) ==
    LET e == EncoderInputResolution(a)
        d == DecoderInputResolution(a)
    IN  IF d.raised
        THEN [ret |-> Raised(d.exc), calls |-> e.calls \o d.calls,
              coord |-> NoCoord, ce |-> NoCe]
        ELSE IF a.output_enc_hidden_only
        THEN EncodeOnly(a, [e EXCEPT !.calls = @ \o d.calls])
        ELSE FullForward(a, e, logits_half)

\* Lines 376-484.
ForwardOutcome(a, logits_half) ==
    LET e == EncoderInputResolution(a) IN
    IF a.output_enc_hidden_only THEN EncodeOnly(a, e) ELSE FullForward(a, e, logits_half)

\* forward, lines 360-484.  logits_half is the precision the output head happens to
\* produce its logits in.
Forward ==
    /\ phase = "ready"
    /\ pc = "idle"
    /\ \E a \in ForwardArgs, logits_half \in BOOLEAN :
        LET o == ForwardOutcome(a, logits_half) IN
        /\ pc' = "returned"
        /\ op' = "forward"
        /\ args' = a
        /\ ret' = o.ret
        /\ calls' = o.calls
        /\ coord' = o.coord
        /\ ce' = o.ce
        /\ UNCHANGED <<config, components, handed_off>>

\* ---------------------------------------------------------------- persistence
Weights == 0..MaxW

SectionKeys == {"encoder_embedding", "decoder_embedding", "enc_dec_model", "tokens_head"}

\* Lines 490-505: the mapping state_dict_for_save_checkpoint builds, one section per
\* sub-component.
StateDictSections ==
    [encoder_embedding |-> heap[encoder_embedding],
     decoder_embedding |-> heap[decoder_embedding],
     enc_dec_model |-> enc_dec_model.weights,
     tokens_head |-> tokens_head.weights]

\* Lines 492-503 read self.encoder_embedding, self.decoder_embedding,
\* self.enc_dec_model and self.tokens_head (and their keys): an attribute __init__
\* did not set raises AttributeError.
SaveAttributesPresent ==
    /\ encoder_embedding # 0
    /\ decoder_embedding # 0
    /\ enc_dec_model.exists
    /\ tokens_head.kind # "absent"

\* state_dict_for_save_checkpoint, lines 486-505.
StateDictForSaveCheckpoint ==
    /\ phase = "ready"
    /\ pc = "idle"
    /\ pc' = "returned"
    /\ op' = "state_dict_for_save_checkpoint"
    /\ args' = [none |-> TRUE]
    /\ ret' = IF SaveAttributesPresent
              THEN [kind |-> "state_dict", sections |-> StateDictSections]
              ELSE Raised("AttributeError")
    /\ calls' = << >>
    /\ coord' = NoCoord
    /\ ce' = NoCe
    /\ UNCHANGED <<config, components, handed_off>>

\* The mappings load_state_dict is given: the four sections, each a saved weight.
StateDicts ==
    [encoder_embedding : Weights, decoder_embedding : Weights,
     enc_dec_model : Weights, tokens_head : Weights]

\* The methods an Embedding (a torch.nn.Module) answers to.
EmbeddingMethods == {"forward", "zero_parameters", "state_dict_for_save_checkpoint",
                     "load_state_dict"}

\* Line 510: the method the encoder embedding is asked for.
EncoderEmbeddingLoadMethod == "encoder_embeddingload_state_dict"

\* Lines 510-513, statement by statement: each section is written to its
\* sub-component; a missing attribute or method raises AttributeError and the
\* statements after it do not run.
LoadStateDictOutcome(state_dict) ==
    LET unchanged == [heap |-> heap, model |-> enc_dec_model, head |-> tokens_head]
        heap1 == [heap EXCEPT ![encoder_embedding] = state_dict.encoder_embedding]
        heap2 == [heap1 EXCEPT ![decoder_embedding] = state_dict.decoder_embedding]
        model1 == [enc_dec_model EXCEPT !.weights = state_dict.enc_dec_model]
        head1 == [tokens_head EXCEPT !.weights = state_dict.tokens_head]
    IN  IF encoder_embedding = 0 \/ EncoderEmbeddingLoadMethod \notin EmbeddingMethods
        THEN [raised |-> TRUE] @@ unchanged
        ELSE IF decoder_embedding = 0
        THEN [raised |-> TRUE, heap |-> heap1, model |-> enc_dec_model, head |-> tokens_head]
        ELSE IF tokens_head.kind = "absent"
        THEN [raised |-> TRUE, heap |-> heap2, model |-> model1, head |-> tokens_head]
        ELSE [raised |-> FALSE, heap |-> heap2, model |-> model1, head |-> head1]

\* load_state_dict, lines 507-513.
LoadStateDict ==
    /\ phase = "ready"
    /\ pc = "idle"
    /\ \E state_dict \in StateDicts :
        LET o == LoadStateDictOutcome(state_dict) IN
        /\ pc' = "returned"
        /\ op' = "load_state_dict"
        /\ args' = state_dict
        /\ heap' = o.heap
        /\ enc_dec_model' = o.model
        /\ tokens_head' = o.head
        /\ ret' = IF o.raised THEN Raised("AttributeError") ELSE Returned("None")
        /\ calls' = << >>
        /\ coord' = NoCoord
        /\ ce' = NoCe
        /\ UNCHANGED <<config, encoder_embedding, decoder_embedding, rpe, handed_off>>

\* ---------------------------------------------------------------- environment
\* Between calls, an optimizer step updates an embedding table in place, through the
\* encoder's reference or through the decoder's.
OptimizerStep ==
    /\ phase = "ready"
    /\ pc = "idle"
    /\ \E ref \in {encoder_embedding, decoder_embedding} \ {0}, w \in Weights :
        heap' = [heap EXCEPT ![ref] = w]
    /\ UNCHANGED <<config, handed_off, encoder_embedding, decoder_embedding, rpe, enc_dec_model,
                   tokens_head, outcome>>

Next ==
    \/ Construct
    \/ SetInputTensor
    \/ Forward
    \/ StateDictForSaveCheckpoint
    \/ LoadStateDict
    \/ OptimizerStep
    \/ Resume

Spec == Init /\ [][Next]_vars

\* --------------------------------------------------------------------- claims
JustReturned(name) == pc = "returned" /\ op = name

\* C1: on a stage that owns an encoder, set_input_tensor given one element (a
\* one-element list, or a bare value) succeeds and that element is the encoder's
\* received input; given a list of any other length it fails.
C1_EncoderStageTakesOneTensor ==
    (JustReturned("set_input_tensor") /\ self.add_encoder) =>
        IF args.is_list /\ Len(args.items) # 1
        THEN ret.kind = "raised"
        ELSE /\ ret.kind # "raised"
             /\ enc_dec_model.encoder_input_tensor
                    = (IF args.is_list THEN args.items[1] ELSE args.value)

\* C1's case: a bare tensor was handed to a stage with encoder and decoder and is now
\* the encoder's received input.
C1_Witness ==
    /\ JustReturned("set_input_tensor")
    /\ self.add_encoder /\ self.add_decoder
    /\ ~args.is_list /\ args.value = 2
    /\ ret.kind = "None"
    /\ enc_dec_model.encoder_input_tensor = 2

\* C2: on a decoder-only stage, set_input_tensor([t0, t1]) leaves decoder input t0 and
\* stored encoder hidden state t1; set_input_tensor([t0]) leaves decoder input None and
\* stored encoder hidden state t0; a list of any other length fails.
C2_DecoderStageHandoff ==
    (JustReturned("set_input_tensor") /\ ~self.add_encoder /\ self.add_decoder
        /\ args.is_list) =>
        CASE Len(args.items) = 2 ->
                /\ ret.kind # "raised"
                /\ enc_dec_model.decoder_input_tensor = args.items[1]
                /\ enc_dec_model.encoder_hidden_state = args.items[2]
          [] Len(args.items) = 1 ->
                /\ ret.kind # "raised"
                /\ enc_dec_model.decoder_input_tensor = 0
                /\ enc_dec_model.encoder_hidden_state = args.items[1]
          [] OTHER -> ret.kind = "raised"

\* C2's case: [t0, t1] with t0 # t1 was handed to a decoder-only stage.
C2_Witness ==
    /\ JustReturned("set_input_tensor")
    /\ ~self.add_encoder /\ self.add_decoder
    /\ args.is_list /\ args.items = <<1, 2>>
    /\ enc_dec_model.decoder_input_tensor = 1
    /\ enc_dec_model.encoder_hidden_state = 2

\* C3: a set_input_tensor call on a stage owning neither encoder nor decoder fails
\* for every input, and every failing set_input_tensor call leaves the encoder's
\* received input, the decoder's received input, the stored encoder hidden state (and
\* everything else the module owns) as they were before the call.
C3_FailingHandoffChangesNothing ==
    [][(pc = "idle" /\ pc' = "returned" /\ op' = "set_input_tensor") =>
          /\ (~self.add_encoder /\ ~self.add_decoder) => ret'.kind = "raised"
          /\ ret'.kind = "raised" =>
                /\ enc_dec_model' = enc_dec_model
                /\ <<heap, encoder_embedding, decoder_embedding, rpe, tokens_head>>'
                       = <<heap, encoder_embedding, decoder_embedding, rpe, tokens_head>>
                /\ <<phase, self>>' = <<phase, self>>]_vars

\* C3's case: a failing call on a decoder-only stage that already holds a handed-off
\* decoder input and encoder hidden state.
C3_Witness ==
    /\ JustReturned("set_input_tensor")
    /\ ret.kind = "raised"
    /\ ~self.add_encoder /\ self.add_decoder
    /\ args.is_list /\ Len(args.items) = 3
    /\ enc_dec_model.decoder_input_tensor = 1
    /\ enc_dec_model.encoder_hidden_state = 2

\* The four kinds of value forward is meant to return.
OutputKinds == {"enc_output", "dec_output", "logits", "loss"}

\* The kind the flags call for.
KindByFlags ==
    IF args.output_enc_hidden_only THEN "enc_output"
    ELSE IF self.add_decoder /\ self.post_process
    THEN IF args.labels # 0 THEN "loss" ELSE "logits"
    ELSE IF self.add_decoder /\ ~self.add_encoder THEN "dec_output"
    ELSE "enc_output"

\* The call came back through the last else of forward (lines 482-484).
ThroughFallThrough ==
    /\ ~args.output_enc_hidden_only
    /\ ~(self.post_process /\ self.add_decoder)
    /\ ~(self.add_decoder /\ ~self.add_encoder)

\* C4: every forward call that returns returns exactly one of encoder output,
\* decoder output, logits, per-token loss, the one the flags (add_encoder,
\* add_decoder, post_process, labels given, output_enc_hidden_only) call for; the
\* fall-through returns the raw encoder output and is reached only on an encoder-only
\* stage; nothing else (None, a pair) is ever returned.
C4_ExactlyOneOutputKind ==
    (JustReturned("forward") /\ ret.kind # "raised") =>
        /\ ret.kind \in OutputKinds
        /\ ret.kind = KindByFlags
        /\ ThroughFallThrough => (self.add_encoder /\ ~self.add_decoder)

\* The collaborators that do decoder-side work.
DecoderWork ==
    {"decoder_embedding", "decoder_relative_position_embedding",
     "decoder_cross_attention_relative_position_embedding", "enc_dec_model",
     "word_embeddings_weight", "tokens_head", "vocab_parallel_cross_entropy"}

\* C5: a forward call with output_enc_hidden_only=True returns the encoder hidden
\* state (the encoder's output, or the stored one) and between entry and return
\* invokes neither the decoder embedding, nor a decoder relative-position-bias
\* generator, nor the coordinator's full forward, nor the output head, nor the
\* cross-entropy.
C5_EncodeOnlyDoesNoDecoderWork ==
    (JustReturned("forward") /\ args.output_enc_hidden_only) =>
        /\ ret.kind # "raised"
        /\ \/ ret.kind = "enc_output" /\ ret.src = "encode"
           \/ ret = StoredEncoderHiddenState
        /\ \A i \in 1..Len(calls) : calls[i] \notin DecoderWork
        /\ ~coord.called
        /\ ~ce.called

\* C5's case: an encode-only call, given decoder token ids, on a pre-process stage
\* that owns encoder and decoder: the encoder embedding and the encoder ran.
C5_Witness ==
    /\ JustReturned("forward")
    /\ args.output_enc_hidden_only
    /\ args.dec_input_ids # 0 /\ args.enc_input_ids # 0
    /\ self.add_encoder /\ self.add_decoder /\ self.pre_process
    /\ calls = <<"build_position_ids", "encoder_embedding", "enc_dec_model.encode">>
    /\ ret.kind = "enc_output"

\* C6: on a pre-process stage with a decoder: if an encoder embedding table exists
\* locally and share_token_embeddings is set, the decoder embedding is the very object
\* the encoder embedding is, after construction and after every later operation (so
\* the weights read through either reference are the same, whatever was updated in
\* place); otherwise the decoder embedding is an object of its own, whose weights are
\* all zero right after construction iff share_token_embeddings is set.
C6_EmbeddingSharing ==
    (phase = "ready" /\ self.add_decoder /\ self.pre_process) =>
        IF encoder_embedding # 0 /\ self.share_token_embeddings
        THEN /\ decoder_embedding = encoder_embedding
             /\ heap[decoder_embedding] = heap[encoder_embedding]
             /\ Len(heap) = 1
        ELSE /\ decoder_embedding # 0
             /\ decoder_embedding # encoder_embedding
             /\ decoder_embedding \in 1..Len(heap)
             /\ JustReturned("__init__") =>
                    (heap[decoder_embedding] = 0 <=> self.share_token_embeddings)

\* C6's case: encoder and decoder share one table, and it was updated in place (to
\* zero, which no constructor leaves there) since construction.
C6_Witness ==
    /\ phase = "ready"
    /\ self.add_encoder /\ self.add_decoder /\ self.pre_process
    /\ self.share_token_embeddings
    /\ decoder_embedding = encoder_embedding
    /\ heap[encoder_embedding] = 0

\* Which optional components exist.
Existence ==
    [encoder_embedding |-> encoder_embedding # 0,
     decoder_embedding |-> decoder_embedding # 0,
     tokens_head |-> tokens_head.kind # "absent",
     encoder |-> enc_dec_model.encoder,
     decoder |-> enc_dec_model.decoder]

\* C7: after construction and after any later sequence of calls, the encoder embedding
\* exists iff add_encoder and pre_process, the decoder embedding iff add_decoder and
\* pre_process, the output head iff add_decoder and post_process, the coordinator's
\* encoder (decoder) iff add_encoder (add_decoder); and no step after construction
\* creates, removes or replaces any of them.
C7_ComponentsFollowFlags ==
    /\ [](phase = "ready" =>
            Existence = [encoder_embedding |-> self.add_encoder /\ self.pre_process,
                         decoder_embedding |-> self.add_decoder /\ self.pre_process,
                         tokens_head |-> self.add_decoder /\ self.post_process,
                         encoder |-> self.add_encoder,
                         decoder |-> self.add_decoder])
    /\ [][phase = "ready" =>
            /\ Existence' = Existence
            /\ <<encoder_embedding, decoder_embedding, tokens_head.kind, Len(heap)>>'
                   = <<encoder_embedding, decoder_embedding, tokens_head.kind, Len(heap)>>
            /\ <<phase, self>>' = <<phase, self>>]_vars

\* C7's case: a forward call has returned on an encoder-only, pre-process, not
\* post-process stage: encoder embedding and encoder, no decoder embedding, no head.
C7_Witness ==
    /\ JustReturned("forward")
    /\ self.add_encoder /\ ~self.add_decoder /\ self.pre_process /\ ~self.post_process
    /\ encoder_embedding # 0 /\ decoder_embedding = 0
    /\ tokens_head.kind = "absent"
    /\ enc_dec_model.encoder /\ ~enc_dec_model.decoder

\* The model owns the four components the mapping has sections for.
OwnsAllFour ==
    /\ encoder_embedding # 0
    /\ decoder_embedding # 0
    /\ enc_dec_model.exists
    /\ tokens_head.kind # "absent"

\* C8: state_dict_for_save_checkpoint returns a mapping with exactly the four named
\* sections, each the state of its sub-component, and load_state_dict of such a
\* mapping on a model owning all four components completes and leaves the encoder
\* embedding, the decoder embedding, the coordinator and the output head holding
\* their sections.
C8_SaveLoadRoundTrip ==
    /\ (JustReturned("state_dict_for_save_checkpoint") /\ ret.kind # "raised") =>
            /\ DOMAIN ret.sections = SectionKeys
            /\ ret.sections = StateDictSections
    /\ (JustReturned("load_state_dict") /\ OwnsAllFour
            /\ (encoder_embedding = decoder_embedding
                    => args.encoder_embedding = args.decoder_embedding)) =>
            /\ ret.kind # "raised"
            /\ heap[encoder_embedding] = args.encoder_embedding
            /\ heap[decoder_embedding] = args.decoder_embedding
            /\ enc_dec_model.weights = args.enc_dec_model
            /\ tokens_head.weights = args.tokens_head

Count(seq, x) == Cardinality({i \in 1..Len(seq) : seq[i] = x})
Before(seq, x, y) ==
    \E i, j \in 1..Len(seq) : i < j /\ seq[i] = x /\ seq[j] = y

\* C9: on a post-process stage with a decoder, a forward call that is not encode-only
\* and returns gives, with labels, the per-token loss, batch-major [b, s], one entry
\* per label position (the labels went to the cross-entropy sequence-major, and the
\* loss was transposed back exactly once); without labels, the logits, batch-major
\* [b, s, v], the cross-entropy not invoked.
C9_LossOrLogitsBatchMajor ==
    (JustReturned("forward") /\ ~args.output_enc_hidden_only
        /\ self.add_decoder /\ self.post_process /\ ret.kind # "raised") =>
        IF args.labels # 0
        THEN /\ ret.kind = "loss"
             /\ ret.dims = <<"b", "s">>
             /\ ret.len = args.labels
             /\ ce.called
             /\ ce.labels.dims = <<"s", "b">>
             /\ Before(calls, "labels.transpose", "vocab_parallel_cross_entropy")
             /\ Count(calls, "vocab_parallel_cross_entropy") = 1
             /\ Count(calls, "tokens_loss.transpose") = 1
        ELSE /\ ret.kind = "logits"
             /\ ret.dims = <<"b", "s", "v">>
             /\ ~ce.called
             /\ Count(calls, "vocab_parallel_cross_entropy") = 0
             /\ Count(calls, "token_logits.transpose") = 1

\* C9's case: a call with labels returned the loss, on a stage running the
\* cross-entropy in half precision.
C9_Witness ==
    /\ JustReturned("forward")
    /\ self.add_decoder /\ self.post_process /\ self.fp16_cross_entropy
    /\ args.labels = DecLen /\ args.dec_input_ids = DecLen
    /\ ret.kind = "loss" /\ ret.len = DecLen

\* Construction built nothing.
NothingBuilt ==
    /\ heap = << >>
    /\ encoder_embedding = 0 /\ decoder_embedding = 0
    /\ rpe = NoRpe /\ enc_dec_model = NoModel /\ tokens_head = NoHead
    /\ calls = << >>

\* C10: (for a valid position-embedding kind) with kv_channels not supplied,
\* construction succeeds with kv_channels = hidden_size / num_attention_heads exactly
\* when hidden_size is divisible by num_attention_heads (512 and 8 give 64) and
\* otherwise fails having built nothing (512 and 7); with kv_channels supplied,
\* construction succeeds whatever the divisibility and passes the value on unchanged.
C10_KvChannelsDerivation ==
    (JustReturned("__init__")
        /\ args.position_embedding_type \in {"learned_absolute", "relative"}) =>
        IF args.kv_channels # NoneInt
        THEN ret.kind = "object" /\ ret.kv_channels = args.kv_channels
        ELSE IF \E k \in 1..args.hidden_size :
                    k * args.num_attention_heads = args.hidden_size
        THEN /\ ret.kind = "object"
             /\ ret.kv_channels * args.num_attention_heads = args.hidden_size
             /\ (args.hidden_size = 512 /\ args.num_attention_heads = 8)
                    => ret.kv_channels = 64
        ELSE /\ ret.kind = "raised"
             /\ phase = "failed"
             /\ NothingBuilt

\* C10's case: hidden_size 512 with 7 heads and no kv_channels: construction failed.
C10_Witness ==
    /\ JustReturned("__init__")
    /\ args.kv_channels = NoneInt
    /\ args.hidden_size = 512 /\ args.num_attention_heads = 7
    /\ args.position_embedding_type = "relative"
    /\ ret.kind = "raised"

\* The call reached the loss path of forward (lines 459-473): the output head has
\* produced token_logits and labels were given.
InLossPath ==
    /\ JustReturned("forward")
    /\ ~args.output_enc_hidden_only
    /\ self.add_decoder /\ self.post_process
    /\ args.labels # 0
    /\ "token_logits_half" \in DOMAIN ce

\* C11 as stated: in the loss path the cross-entropy gets half-precision logits only
\* when fp16_cross_entropy is set and the logits are half, full-precision logits in
\* every other case, and every mismatch between fp16_cross_entropy and the precision
\* of the logits fails instead of computing a loss.
C11_EveryPrecisionMismatchFails ==
    InLossPath =>
        /\ ce.called =>
              (ce.logits_half <=> (self.fp16_cross_entropy /\ ce.token_logits_half))
        /\ (self.fp16_cross_entropy # ce.token_logits_half) =>
              (ret.kind = "raised" /\ ~ce.called)

\* C11 as amended: in the loss path the cross-entropy gets half-precision logits only
\* when fp16_cross_entropy is set and the logits are half, and full-precision logits
\* whenever else it is invoked; with fp16_cross_entropy set and logits that are not
\* half the call fails and computes no loss; with fp16_cross_entropy not set the call
\* never fails on precision: half logits are converted to full precision and the loss
\* is computed.
C11_PrecisionOfCrossEntropy ==
    InLossPath =>
        /\ ce.called =>
              (ce.logits_half <=> (self.fp16_cross_entropy /\ ce.token_logits_half))
        /\ (self.fp16_cross_entropy /\ ~ce.token_logits_half) =>
              (ret.kind = "raised" /\ ~ce.called)
        /\ ~(self.fp16_cross_entropy /\ ~ce.token_logits_half) =>
              (ret.kind = "loss" /\ ce.called)

\* C11's case: fp16_cross_entropy is not set, the head produced half logits, and the
\* loss was computed on them in full precision.
C11_Witness ==
    /\ InLossPath
    /\ ~self.fp16_cross_entropy
    /\ ce.token_logits_half
    /\ ce.called /\ ~ce.logits_half
    /\ ret.kind = "loss"

\* C12: a forward call that is not encode-only, on a pre-process stage with a decoder,
\* given decoder token ids and an encoder input in any form (encoder token ids, a
\* precomputed encoder input embedding, or a precomputed encoder output): with
\* position_embedding_type 'relative' it invokes the coordinator with a decoder
\* self-attention bias over [dec_len x dec_len] and, unless
\* relative_position_bias_self_attention_only, a cross-attention bias over
\* [dec_len x enc_len] (None in self-attention-only mode); with any other
\* position_embedding_type it invokes the coordinator with all three biases None.
C12_RelativePositionBiasWiring ==
    (JustReturned("forward") /\ ~args.output_enc_hidden_only
        /\ self.pre_process /\ self.add_decoder /\ args.dec_input_ids # 0
        /\ (args.enc_input_ids # 0 \/ args.enc_input \/ args.enc_output)) =>
        /\ coord.called
        /\ IF self.position_embedding_type = "relative"
           THEN /\ coord.dec_self_attention_relative_position_bias
                       = Bias("decoder_relative_position_embedding",
                              args.dec_input_ids, args.dec_input_ids)
                /\ IF self.relative_position_bias_self_attention_only
                   THEN coord.dec_cross_attention_relative_position_bias = NoBias
                   ELSE /\ coord.dec_cross_attention_relative_position_bias.gen
                               = "decoder_cross_attention_relative_position_embedding"
                        /\ coord.dec_cross_attention_relative_position_bias.q
                               = args.dec_input_ids
                        /\ args.enc_input_ids # 0 =>
                               coord.dec_cross_attention_relative_position_bias.k
                                   = args.enc_input_ids
           ELSE /\ coord.enc_self_attention_relative_position_bias = NoBias
                /\ coord.dec_self_attention_relative_position_bias = NoBias
                /\ coord.dec_cross_attention_relative_position_bias = NoBias

\* C13: on a decoder-only stage, once a set_input_tensor call has succeeded, a forward
\* call with output_enc_hidden_only=True returns exactly the encoder output of the
\* most recent successful hand-off (the last element of the list handed over),
\* whatever its other arguments are, a caller-supplied enc_output included; and on a
\* stage that owns an encoder, a forward call with output_enc_hidden_only=True and a
\* caller-supplied enc_output returns the coordinator's stored encoder hidden state:
\* the encoder is not run and the supplied value is not returned.
C13_EncodeOnlyAfterHandoff ==
    (JustReturned("forward") /\ args.output_enc_hidden_only) =>
        /\ (~self.add_encoder /\ self.add_decoder /\ handed_off.done) =>
              /\ ret.kind # "raised"
              /\ ret.id = handed_off.enc_output
              /\ ret.kind = (IF handed_off.enc_output = 0 THEN "None" ELSE "enc_output")
              /\ ret.src # "caller"
        /\ (self.add_encoder /\ args.enc_output) =>
              /\ ret = StoredEncoderHiddenState
              /\ ret.src # "caller"
              /\ \A i \in 1..Len(calls) : calls[i] # "enc_dec_model.encode"

\* C13's case: a decoder-only stage was handed [1, 2] and then asked for the encoder
\* hidden state with an enc_output of the caller's: it returned tensor 2.
C13_Witness ==
    /\ JustReturned("forward")
    /\ args.output_enc_hidden_only /\ args.enc_output
    /\ ~self.add_encoder /\ self.add_decoder
    /\ handed_off = [done |-> TRUE, enc_output |-> 2]
    /\ enc_dec_model.decoder_input_tensor = 1
    /\ ret.kind = "enc_output" /\ ret.id = 2
====
